---- MODULE Spec2Model ----
(***************************************************************************)
(* A model of two pieces of ZenML:                                         *)
(*   - WhylogsContext (integrations/whylogs/whylogs_utils.py): the lazily  *)
(*     created whylogs session of a step context and log_dataframe's tag   *)
(*     handling;                                                           *)
(*   - the step decorator (new/steps/step_decorator.py).                   *)
(* Python values are modelled as follows.  Optional[T] is a sequence of    *)
(* length 0 (None) or 1 (the value).  A dict is a function whose domain is *)
(* its key set.  An object's attributes are a dict; attribute lookup looks *)
(* in the instance first and in the class second.  A Session object is the *)
(* index of its record in the sequence of all sessions constructed so far. *)
(***************************************************************************)
EXTENDS Integers, Sequences, FiniteSets, TLC

VARIABLES
    heap,       \* [cls |-> class attributes of WhylogsContext, inst |-> [Contexts -> instance attributes]]
    sessions,   \* every Session constructed so far, in construction order
    last,       \* the observable outcome of the last completed call on a context
    returned,   \* [Contexts -> set of session objects get_whylogs_session has returned]
    ncalls,     \* number of calls made so far
    pc,         \* [Threads -> position inside get_whylogs_session / log_dataframe]
    tctx,       \* [Threads -> the context instance (self) of the thread's call]
    top,        \* [Threads -> "get" or "log": the method the thread called]
    tloc,       \* [Threads -> the Session the thread has constructed and not yet stored]
    tret,       \* [Threads -> value returned by the thread's last get_whylogs_session]
    pending,    \* Optional: the inner_decorator closure step(...) returned, not yet applied
    built       \* Optional: the last step instance built, with the arguments it was built from

vars == <<heap, sessions, last, returned, ncalls, pc, tctx, top, tloc, tret, pending, built>>

ctxVars == <<heap, sessions, last, returned, ncalls>>
threadVars == <<pc, tctx, top, tloc, tret>>
stepVars == <<pending, built>>

----------------------------------------------------------------------------
(* Bounds *)

\* Number of calls a behaviour may make.
MaxCalls == 3

----------------------------------------------------------------------------
(* Python values *)

None == <<>>
Some(x) == <<x>>
Val(o) == o[1]

\* The empty dict, dict().
EmptyDict == <<>>

\* d[k] = v on a dict.
DictSet(d, k, v) == [x \in (DOMAIN d) \cup {k} |-> IF x = k THEN v ELSE d[x]]

\* d.setdefault(k, v) on a dict.
DictSetDefault(d, k, v) == IF k \in DOMAIN d THEN d ELSE DictSet(d, k, v)

\* Truth value of an Optional[str]: None and "" are false.
TruthyStr(o) == o /= None /\ Val(o) /= ""

\* Truth value of an Optional[Dict]: None and {} are false.
TruthyDict(o) == o /= None /\ DOMAIN Val(o) /= {}

\* Truth value of an Optional[bool].
IsNone(o) == o = None

----------------------------------------------------------------------------
(* WhylogsContext *)

Contexts == {"c1", "c2"}
Threads == {"t1", "t2"}

\* self.step_name of each context instance (StepContext supplies it).
step_name(c) == IF c = "c1" THEN "ingest" ELSE "train"

\* The value None of the class attribute _session.
NoneSession == 0

\* Inputs of log_dataframe.
TagKeys == {"zenml.step", "datasetId", "region"}
TagValuesOf(k) ==
    IF k = "zenml.step" THEN {"ingest", "spoofed"}
    ELSE IF k = "datasetId" THEN {"custom", ""}
    ELSE {"eu"}
TagValues == UNION {TagValuesOf(k) : k \in TagKeys}
TagDicts ==
    UNION {{d \in [K -> TagValues] : \A k \in K : d[k] \in TagValuesOf(k)} : K \in SUBSET TagKeys}
TagArgs == {None} \cup {Some(d) : d \in TagDicts}
DatasetNameArgs == {None, Some(""), Some("orders")}

\* The tags the threads of SpecThreads pass: None and {"region": "eu"}.
ThreadTagArgs == {None, Some([k \in {"region"} |-> "eu"])}

\* getattr(self, "_session"): the instance attribute, else the class attribute.
GetAttr(h, c) ==
    IF "_session" \in DOMAIN h.inst[c] THEN h.inst[c]["_session"] ELSE h.cls["_session"]

\* A mutation of SetAttr that writes the class attribute instead.
SetAttrOnClass(h, c, v) == [h EXCEPT !.cls = DictSet(h.cls, "_session", v)]

\* self._session = v: always sets the attribute on the instance.
SetAttr(h, c, v) == [h EXCEPT !.inst[c] = DictSet(h.inst[c], "_session", v)]

\* A mutation of SessionIsSet under which the session is never found present.
SessionNeverSet(v) == FALSE

\* `self._session is not None`
SessionIsSet(v) == v /= NoneSession

\* Session(project=self.step_name, pipeline=self.step_name, writers=[]);
\* `by` and `thread` record who made the constructor call.
NewSession(c, t) ==
    [project |-> step_name(c), pipeline |-> step_name(c), writers |-> <<>>,
     by |-> c, thread |-> t]

\* A mutation of get_whylogs_session that tries the construction a second
\* time when the first attempt raises.
get_whylogs_session_retry(h, ss, c, t, ok) ==
    IF SessionIsSet(GetAttr(h, c))
    THEN [heap |-> h, sessions |-> ss, ret |-> GetAttr(h, c), raised |-> FALSE, attempts |-> 0]
    ELSE IF ~ok
         THEN [heap |-> h, sessions |-> ss, ret |-> NoneSession, raised |-> TRUE, attempts |-> 2]
         ELSE LET ss2 == Append(ss, NewSession(c, t))
                  h2 == SetAttr(h, c, Len(ss2))
              IN  [heap |-> h2, sessions |-> ss2, ret |-> GetAttr(h2, c), raised |-> FALSE,
                   attempts |-> 1]

\* get_whylogs_session run to completion by one caller.  `ok` is whether the
\* Session constructor returns (TRUE) or raises (FALSE).  The result holds the
\* new heap and sessions, the returned session, whether the call raised and
\* how many times the constructor was called.
get_whylogs_session(h, ss, c, t, ok) ==
    IF SessionIsSet(GetAttr(h, c))
    THEN [heap |-> h, sessions |-> ss, ret |-> GetAttr(h, c), raised |-> FALSE, attempts |-> 0]
    ELSE IF ~ok
         THEN [heap |-> h, sessions |-> ss, ret |-> NoneSession, raised |-> TRUE, attempts |-> 1]
         ELSE LET ss2 == Append(ss, NewSession(c, t))
                  h2 == SetAttr(h, c, Len(ss2))
              IN  [heap |-> h2, sessions |-> ss2, ret |-> GetAttr(h2, c), raised |-> FALSE,
                   attempts |-> 1]

\* `dataset_name = dataset_name or self.step_name`
ResolveDatasetName(dataset_name, c) ==
    IF TruthyStr(dataset_name) THEN Val(dataset_name) ELSE step_name(c)

\* A mutation of ForceStepTag that keeps a caller-supplied "zenml.step".
KeepStepTag(d, c) == DictSetDefault(d, "zenml.step", step_name(c))

\* `tags["zenml.step"] = self.step_name`
ForceStepTag(d, c) == DictSet(d, "zenml.step", step_name(c))

\* A mutation of DefaultDatasetId that overwrites a caller-supplied "datasetId".
ForceDatasetId(d, name) == DictSet(d, "datasetId", name)

\* `tags.setdefault("datasetId", dataset_name)`
DefaultDatasetId(d, name) == DictSetDefault(d, "datasetId", name)

\* A mutation of FinalTags that also writes the "zenml.pipeline" tag.
FinalTagsWithPipeline(d, name, c) ==
    DictSet(DefaultDatasetId(ForceStepTag(d, c), name), "zenml.pipeline", step_name(c))

\* The dict `tags` after the two writes of log_dataframe.
FinalTags(d, name, c) == DefaultDatasetId(ForceStepTag(d, c), name)

\* The part of log_dataframe after the session is obtained.  `tags = tags or
\* dict()` binds the local name to the caller's own dict object when that dict
\* is non-empty and to a fresh dict otherwise; the two writes go to whichever
\* object the local name is bound to.  The result holds the arguments of
\* session.logger(...) and the caller's dict object as it is after the call.
LogTags(dataset_name, tags, c) ==
    LET name == ResolveDatasetName(dataset_name, c)
        aliased == TruthyDict(tags)
        start == IF aliased THEN Val(tags) ELSE EmptyDict
        final == FinalTags(start, name, c)
    IN  [name |-> name, tags |-> final,
         caller |-> IF aliased THEN Some(final) ELSE tags]

NoCall ==
    [op |-> "none", ctx |-> "c1", pre |-> NoneSession, error |-> "none", ret |-> NoneSession,
     attempts |-> 0, dataset_name |-> None, tags_in |-> None, caller |-> None,
     logger |-> None]

\* The state right after the contexts are created by the execution engine.
InitCtx ==
    /\ heap = [cls |-> [a \in {"_session"} |-> NoneSession],
               inst |-> [c \in Contexts |-> EmptyDict]]
    /\ sessions = <<>>
    /\ last = NoCall
    /\ returned = [c \in Contexts |-> {}]
    /\ ncalls = 0

InitThreads ==
    /\ pc = [t \in Threads |-> "idle"]
    /\ tctx = [t \in Threads |-> "c1"]
    /\ top = [t \in Threads |-> "get"]
    /\ tloc = [t \in Threads |-> NoneSession]
    /\ tret = [t \in Threads |-> NoneSession]

InitStep ==
    /\ pending = None
    /\ built = None

Init == InitCtx /\ InitThreads /\ InitStep

\* context.get_whylogs_session() called and run to completion.
GetWhylogsSession(c) ==
    /\ ncalls < MaxCalls
    /\ \E ok \in BOOLEAN :
          LET r == get_whylogs_session(heap, sessions, c, "main", ok)
          IN  /\ heap' = r.heap
              /\ sessions' = r.sessions
              /\ returned' = IF r.raised THEN returned
                             ELSE [returned EXCEPT ![c] = @ \cup {r.ret}]
              /\ last' = [NoCall EXCEPT !.op = "get", !.ctx = c, !.pre = GetAttr(heap, c),
                                        !.error = IF r.raised THEN "session" ELSE "none",
                                        !.ret = r.ret, !.attempts = r.attempts]
    /\ ncalls' = ncalls + 1
    /\ UNCHANGED <<threadVars, stepVars>>

\* context.log_dataframe(df, dataset_name, dataset_timestamp, tags) called and
\* run to completion.  `ok` is whether the Session constructor returns,
\* `logged` whether logger.log_dataframe(df) and logger.close() return; an
\* exception of either leaves log_dataframe uncaught.
LogDataframe(c) ==
    /\ ncalls < MaxCalls
    /\ \E ok \in BOOLEAN, logged \in BOOLEAN, dataset_name \in DatasetNameArgs, tags \in TagArgs :
          LET r == get_whylogs_session(heap, sessions, c, "main", ok)
              lt == LogTags(dataset_name, tags, c)
          IN  /\ heap' = r.heap
              /\ sessions' = r.sessions
              /\ returned' = IF r.raised THEN returned
                             ELSE [returned EXCEPT ![c] = @ \cup {r.ret}]
              /\ last' = [NoCall EXCEPT
                            !.op = "log", !.ctx = c, !.pre = GetAttr(heap, c),
                            !.error = IF r.raised THEN "session"
                                      ELSE IF ~logged THEN "profiling" ELSE "none",
                            !.ret = r.ret, !.attempts = r.attempts,
                            !.dataset_name = dataset_name, !.tags_in = tags,
                            !.caller = IF r.raised THEN tags ELSE lt.caller,
                            !.logger = IF r.raised THEN None
                                       ELSE Some([session |-> r.ret, name |-> lt.name,
                                                  tags |-> lt.tags])]
    /\ ncalls' = ncalls + 1
    /\ UNCHANGED <<threadVars, stepVars>>

Next ==
    \/ \E c \in Contexts : GetWhylogsSession(c)
    \/ \E c \in Contexts : LogDataframe(c)

\* Calls on the contexts made one at a time, each run to completion.
Spec == Init /\ [][Next]_vars

----------------------------------------------------------------------------
(* Two threads calling into the contexts with no lock: each action is one   *)
(* step of get_whylogs_session that the interpreter runs without switching  *)
(* threads (an attribute read, the constructor call, the attribute write).  *)

\* A thread calls get_whylogs_session() or log_dataframe(...) on a context;
\* log_dataframe calls get_whylogs_session() first (line 103).
T_Call(t) ==
    /\ pc[t] = "idle"
    /\ ncalls < MaxCalls
    /\ \E c \in Contexts, op \in {"get", "log"} :
          /\ tctx' = [tctx EXCEPT ![t] = c]
          /\ top' = [top EXCEPT ![t] = op]
    /\ pc' = [pc EXCEPT ![t] = "check"]
    /\ tloc' = [tloc EXCEPT ![t] = NoneSession]
    /\ tret' = [tret EXCEPT ![t] = NoneSession]
    /\ ncalls' = ncalls + 1
    /\ UNCHANGED <<heap, sessions, last, returned, stepVars>>

\* `if self._session is not None:` reads the attribute and branches.
T_Check(t) ==
    /\ pc[t] = "check"
    /\ pc' = [pc EXCEPT ![t] = IF SessionIsSet(GetAttr(heap, tctx[t])) THEN "return"
                                ELSE "construct"]
    /\ UNCHANGED <<ctxVars, tctx, top, tloc, tret, stepVars>>

\* `Session(project=..., pipeline=..., writers=[])` returns a new session,
\* held by the thread until it is stored.
T_Construct(t) ==
    /\ pc[t] = "construct"
    /\ sessions' = Append(sessions, NewSession(tctx[t], t))
    /\ tloc' = [tloc EXCEPT ![t] = Len(sessions')]
    /\ pc' = [pc EXCEPT ![t] = "store"]
    /\ UNCHANGED <<heap, last, returned, ncalls, tctx, top, tret, stepVars>>

\* `Session(...)` raises: the exception leaves get_whylogs_session, and
\* log_dataframe when that is the caller, before anything is stored.
T_ConstructFails(t) ==
    /\ pc[t] = "construct"
    /\ pc' = [pc EXCEPT ![t] = "idle"]
    /\ last' = [NoCall EXCEPT !.op = top[t], !.ctx = tctx[t], !.error = "session",
                              !.attempts = 1]
    /\ UNCHANGED <<heap, sessions, returned, ncalls, tctx, top, tloc, tret, stepVars>>

\* `self._session = <the new session>`
T_Store(t) ==
    /\ pc[t] = "store"
    /\ heap' = SetAttr(heap, tctx[t], tloc[t])
    /\ pc' = [pc EXCEPT ![t] = "return"]
    /\ UNCHANGED <<sessions, last, returned, ncalls, tctx, top, tloc, tret, stepVars>>

\* `return self._session` (line 68 or line 79) reads the attribute again.
T_Return(t) ==
    /\ pc[t] = "return"
    /\ tret' = [tret EXCEPT ![t] = GetAttr(heap, tctx[t])]
    /\ returned' = [returned EXCEPT ![tctx[t]] = @ \cup {GetAttr(heap, tctx[t])}]
    /\ pc' = [pc EXCEPT ![t] = IF top[t] = "log" THEN "log" ELSE "idle"]
    /\ UNCHANGED <<heap, sessions, last, ncalls, tctx, top, tloc, stepVars>>

\* The rest of log_dataframe (lines 106-120) with the session in hand.
T_LogRest(t) ==
    /\ pc[t] = "log"
    /\ \E logged \in BOOLEAN, dataset_name \in DatasetNameArgs, tags \in ThreadTagArgs :
          LET lt == LogTags(dataset_name, tags, tctx[t])
          IN  last' = [NoCall EXCEPT
                         !.op = "log", !.ctx = tctx[t], !.ret = tret[t],
                         !.error = IF logged THEN "none" ELSE "profiling",
                         !.dataset_name = dataset_name, !.tags_in = tags,
                         !.caller = lt.caller,
                         !.logger = Some([session |-> tret[t], name |-> lt.name,
                                          tags |-> lt.tags])]
    /\ pc' = [pc EXCEPT ![t] = "idle"]
    /\ UNCHANGED <<heap, sessions, returned, ncalls, tctx, top, tloc, tret, stepVars>>

NextThreads ==
    \/ \E t \in Threads : T_Call(t)
    \/ \E t \in Threads : T_Check(t)
    \/ \E t \in Threads : T_Construct(t)
    \/ \E t \in Threads : T_ConstructFails(t)
    \/ \E t \in Threads : T_Store(t)
    \/ \E t \in Threads : T_Return(t)
    \/ \E t \in Threads : T_LogRest(t)

SpecThreads == Init /\ [][NextThreads]_vars

----------------------------------------------------------------------------
(* The step decorator *)

\* The decorated functions: `name` is func.__name__, `context` is whether the
\* function declares a parameter typed StepContext or a subclass of it such
\* as WhylogsContext.
FuncNames == {"extract_batch", "profile"}
Funcs == [name : FuncNames, context : BOOLEAN]

\* Values of the keyword arguments `name` and `enable_cache`.
NameArgs == {None, Some(""), Some("custom_step")}
EnableCacheArgs == {None, Some(TRUE), Some(FALSE)}

\* BaseStep.__init__ as reached through _DecoratedStep: keeps the name it is
\* given and resolves the caching policy: the explicit value, else disabled
\* when the entrypoint requires a step context, else enabled.
DecoratedStep(func, name, enable_cache) ==
    [name |-> name,
     entrypoint |-> func,
     enable_cache |-> IF ~IsNone(enable_cache) THEN Val(enable_cache) ELSE ~func.context]

\* A mutation of StepName that passes the `name` argument on as it is.
StepNameVerbatim(func, name) == IF name = None THEN "" ELSE Val(name)

\* `name or func.__name__`
StepName(func, name) == IF TruthyStr(name) THEN Val(name) ELSE func.name

\* A mutation of CacheArg that drops the caller's enable_cache.
CacheArgDropped(enable_cache) == None

\* `enable_cache=enable_cache`: the argument is passed on as it is.
CacheArg(enable_cache) == enable_cache

\* inner_decorator(func) with `name` and `enable_cache` taken from the
\* enclosing call of step(...): the step instance it returns.
inner_decorator(func, name, enable_cache) ==
    DecoratedStep(func, StepName(func, name), CacheArg(enable_cache))

\* step(_func, name=..., enable_cache=...) with a function: line 156 builds the
\* step at once.
StepDirect ==
    \E func \in Funcs, name \in NameArgs, enable_cache \in EnableCacheArgs :
        /\ built' = Some([step |-> inner_decorator(func, name, enable_cache),
                          func |-> func, name |-> name, enable_cache |-> enable_cache,
                          path |-> "direct"])
        /\ UNCHANGED <<pending, ctxVars, threadVars>>

\* step(name=..., enable_cache=...) without a function: line 154 returns
\* inner_decorator, which holds the two arguments.
StepConfigure ==
    \E name \in NameArgs, enable_cache \in EnableCacheArgs :
        /\ pending' = Some([name |-> name, enable_cache |-> enable_cache])
        /\ UNCHANGED <<built, ctxVars, threadVars>>

\* The returned inner_decorator is applied to a function.
StepApply ==
    /\ pending /= None
    /\ \E func \in Funcs :
          built' = Some([step |-> inner_decorator(func, Val(pending).name,
                                                  Val(pending).enable_cache),
                         func |-> func, name |-> Val(pending).name,
                         enable_cache |-> Val(pending).enable_cache,
                         path |-> "keyword"])
    /\ UNCHANGED <<pending, ctxVars, threadVars>>

NextStep ==
    \/ StepDirect
    \/ StepConfigure
    \/ StepApply

SpecStep == Init /\ [][NextStep]_vars

----------------------------------------------------------------------------
(* Properties *)

\* The sessions constructed for context c.
SessionsOf(c) == {i \in 1..Len(sessions) : sessions[i].by = c}

\* The caller's tags as a dict: None counts as the empty dict.
CallerTags == IF last.tags_in = None THEN EmptyDict ELSE Val(last.tags_in)

\* The tags handed to session.logger by the last call.
LoggerTags == Val(last.logger).tags

\* C1: with calls made one at a time, at most one session is ever constructed
\* for a context instance, every session get_whylogs_session has returned is
\* the one the instance holds, and the _session attribute, once set, is never
\* replaced.
C1_SingleSession ==
    /\ [](\A c \in Contexts :
            /\ Cardinality(SessionsOf(c)) <= 1
            /\ Cardinality(returned[c]) <= 1
            /\ NoneSession \notin returned[c]
            /\ returned[c] \subseteq {GetAttr(heap, c)})
    /\ [][\A c \in Contexts :
            GetAttr(heap, c) /= NoneSession => GetAttr(heap', c) = GetAttr(heap, c)]_vars

\* C1 witness: a third call, a get_whylogs_session on a context whose session
\* already exists, returns that same session and constructs nothing.
C1_Witness ==
    /\ ncalls = 3
    /\ last.op = "get"
    /\ last.pre /= NoneSession
    /\ last.ret = last.pre
    /\ last.attempts = 0
    /\ Cardinality(SessionsOf(last.ctx)) = 1

\* C2: the tags handed to the logger always carry "zenml.step" equal to the
\* context's step_name, whatever the caller passed.
C2_StepTagForced ==
    last.logger /= None =>
        /\ "zenml.step" \in DOMAIN LoggerTags
        /\ LoggerTags["zenml.step"] = step_name(last.ctx)

\* C2 witness: the caller passed a different "zenml.step" and the logger was
\* opened.
C2_Witness ==
    /\ last.logger /= None
    /\ "zenml.step" \in DOMAIN CallerTags
    /\ CallerTags["zenml.step"] /= step_name(last.ctx)

\* C3 as stated: "datasetId" is the caller's tag when the caller's tags have
\* that key, else the dataset_name argument when one was passed, else the
\* step name.
C3_AsStated ==
    last.logger /= None =>
        LoggerTags["datasetId"] =
            IF "datasetId" \in DOMAIN CallerTags THEN CallerTags["datasetId"]
            ELSE IF last.dataset_name /= None THEN Val(last.dataset_name)
            ELSE step_name(last.ctx)

\* C3 amended: "datasetId" is the caller's tag when the caller's tags have
\* that key, else the dataset_name argument when it was passed and is not the
\* empty string, else (not passed, or empty) the step name.
C3_DatasetId ==
    last.logger /= None =>
        LoggerTags["datasetId"] =
            IF "datasetId" \in DOMAIN CallerTags THEN CallerTags["datasetId"]
            ELSE IF last.dataset_name \notin {None, Some("")} THEN Val(last.dataset_name)
            ELSE step_name(last.ctx)

\* C3 witness: dataset_name="" was passed without a "datasetId" tag and the
\* logger got the step name.
C3_Witness ==
    /\ last.logger /= None
    /\ last.dataset_name = Some("")
    /\ "datasetId" \notin DOMAIN CallerTags
    /\ LoggerTags["datasetId"] = step_name(last.ctx)

\* C4: the tags handed to the logger have exactly the caller's keys plus
\* "zenml.step" and "datasetId", and every other caller key keeps its value.
C4_ExactTags ==
    last.logger /= None =>
        /\ DOMAIN LoggerTags = (DOMAIN CallerTags) \cup {"zenml.step", "datasetId"}
        /\ \A k \in (DOMAIN CallerTags) \ {"zenml.step", "datasetId"} :
              LoggerTags[k] = CallerTags[k]

\* C4 witness: step "ingest", dataset_name "orders", tags {"region": "eu"}
\* gives {"region": "eu", "zenml.step": "ingest", "datasetId": "orders"}.
C4_Witness ==
    /\ last.logger /= None
    /\ step_name(last.ctx) = "ingest"
    /\ last.dataset_name = Some("orders")
    /\ last.tags_in = Some([k \in {"region"} |-> "eu"])
    /\ LoggerTags = [k \in {"region", "zenml.step", "datasetId"} |->
                        IF k = "region" THEN "eu"
                        ELSE IF k = "zenml.step" THEN "ingest" ELSE "orders"]

\* C5: after log_dataframe the caller's tags mapping has the keys and values
\* it had before the call.
C5_CallerTagsUntouched ==
    last.op = "log" => last.caller = last.tags_in

C7_NameResolved ==
    built /= None =>
        LET b == Val(built)
        IN  /\ b.step.name /= ""
            /\ b.name \notin {None, Some("")} => b.step.name = Val(b.name)
            /\ b.name \in {None, Some("")} => b.step.name = b.func.name

\* C7 witness: name="" given through the keyword path, and the step is named
\* after the function.
C7_Witness ==
    /\ built /= None
    /\ Val(built).path = "keyword"
    /\ Val(built).name = Some("")
    /\ Val(built).step.name = "extract_batch"

\* C8: a context that holds a session holds one that it constructed itself
\* from its own step_name, no two contexts hold the same session, and a step
\* that sets one context's session leaves every other context's session as
\* it was.
C8_NotShared ==
    /\ [](\A c \in Contexts :
            GetAttr(heap, c) /= NoneSession =>
                /\ GetAttr(heap, c) \in SessionsOf(c)
                /\ sessions[GetAttr(heap, c)].project = step_name(c)
                /\ sessions[GetAttr(heap, c)].pipeline = step_name(c)
                /\ \A d \in Contexts \ {c} : GetAttr(heap, d) /= GetAttr(heap, c))
    /\ [][\A c \in Contexts :
            GetAttr(heap', c) /= GetAttr(heap, c) =>
                \A d \in Contexts \ {c} : GetAttr(heap', d) = GetAttr(heap, d)]_vars

\* C8 witness: one context has its session while the other, called after it,
\* still has none of its own.
C8_Witness ==
    /\ GetAttr(heap, "c1") /= NoneSession
    /\ GetAttr(heap, "c2") = NoneSession
    /\ last.ctx = "c2"
    /\ last.op = "get"
    /\ last.error = "session"

\* C9: without a lock a context gets a second session only through a race:
\* any two sessions constructed for one context were constructed by two
\* different threads, so a thread on its own never constructs twice.
C9_SecondSessionOnlyByRace ==
    \A c \in Contexts : \A i, j \in SessionsOf(c) :
        i /= j => sessions[i].thread /= sessions[j].thread

\* C9 witness: both threads called into the same context, two sessions were
\* constructed for it and the two calls returned different sessions.
C9_Witness ==
    /\ tctx["t1"] = tctx["t2"]
    /\ tret["t1"] /= NoneSession
    /\ tret["t2"] /= NoneSession
    /\ tret["t1"] /= tret["t2"]
    /\ {tret["t1"], tret["t2"]} \subseteq SessionsOf(tctx["t1"])

\* C10: a call in which the Session constructor raised made exactly one
\* construction attempt, opened no logger and left the context without a
\* session; and any call on a context without a session attempts the
\* construction (again).
C10_FailureLeavesUninitialized ==
    /\ [](last.error = "session" =>
            /\ last.attempts = 1
            /\ last.logger = None
            /\ last.ret = NoneSession
            /\ GetAttr(heap, last.ctx) = NoneSession
            /\ SessionsOf(last.ctx) = {})
    /\ [][(ncalls' = ncalls + 1 /\ GetAttr(heap, last'.ctx) = NoneSession)
            => last'.attempts = 1]_vars

\* C10 witness: a third call, a log_dataframe, failed in the constructor when
\* the two calls before it had failed as well.
C10_Witness ==
    /\ ncalls = 3
    /\ last.op = "log"
    /\ last.error = "session"
    /\ last.attempts = 1
    /\ sessions = <<>>

====
